---- MODULE Spec2Model ----
(***************************************************************************)
(* A model of dechib_core's StorageEngine (storage_engine.rs): table       *)
(* creation, metadata read-back and row insertion on top of a RocksDB      *)
(* store with one column family per table.                                 *)
(*                                                                         *)
(* The store is a function from column-family names to key/value maps; a   *)
(* value is the postcard encoding of a schema or of a record.  Every       *)
(* public operation is a call frame of a caller that advances statement by *)
(* statement, so that the WriteBatch, the counters and the store can be    *)
(* observed between the statements of insert_rows and create_table.        *)
(***************************************************************************)
EXTENDS Integers, Sequences, FiniteSets, TLC

\* ------------------------------------------------------------------ bounds

\* Largest number of rows in one InsertOptions.
MaxRows == 3

\* Largest value an auto-increment counter may reach (guard of insert_rows).
MaxCounter == 4

\* Largest number of times the store is closed and opened again.
MaxReopens == 1

\* ------------------------------------------------------------- value domain

\* The reserved key, as the sequence of its "/"-separated segments.
TABLE_METADATA_KEY == <<"__metadata__">>

\* Option<T>: None is the empty sequence, Some(x) the sequence holding x.
None == <<>>

Some(x) == <<x>>

\* Every column name of the model, in the byte order of String's Ord, which
\* is the iteration order of BTreeMap<String, _>.
NameOrder == <<"", "__metadata__", "city", "id", "name", "toshi", "user">>

ColumnNames == {NameOrder[i] : i \in 1..Len(NameOrder)}

Rank(n) == CHOOSE i \in 1..Len(NameOrder) : NameOrder[i] = n

\* The keys of a map (a function whose domain is a set of column names) in
\* BTreeMap iteration order.
RECURSIVE SortedFrom(_, _)
SortedFrom(S, i) ==
  IF i > Len(NameOrder) THEN <<>>
  ELSE IF NameOrder[i] \in S THEN <<NameOrder[i]>> \o SortedFrom(S, i + 1)
  ELSE SortedFrom(S, i + 1)

Sorted(S) == SortedFrom(S, 1)

\* types::Value, a tagged union: <<variant, payload>>.
Text(s) == <<"Text", s>>

Number(n) == <<"Number", n>>

Boolean(b) == <<"Boolean", b>>

\* sqlparser::ast::Expr: a literal Expr::Value(ast::Value), or another
\* expression (here a function call).
ExprValue(kind, payload) == <<"Value", <<kind, payload>>>>

ExprFunction(name) == <<"Function", name>>

\* Value::try_from(ast::Value): the literal's variant decides the Value's.
ValueTryFrom(lit) ==
  CASE lit[1] = "SingleQuotedString" -> Text(lit[2])
    [] lit[1] = "Number" -> Number(lit[2])
    [] lit[1] = "Boolean" -> Boolean(lit[2])

\* types::ColumnDescriptor.
Desc(dt, nn, uq, pk, ai, def, fk) ==
  [datatype |-> dt, not_null |-> nn, unique |-> uq, primary_key |-> pk,
   auto_increment |-> ai, default |-> def, foreign_key |-> fk]

\* ColumnDescriptor::needs_value: no default and not auto-increment.
needs_value(desc) == desc.default = None /\ ~desc.auto_increment

\* ColumnDescriptor::should_generate: a default or auto-increment.
should_generate(desc) == desc.default # None \/ desc.auto_increment

\* ColumnDescriptor::value_matches_type: the Value's variant against the
\* declared datatype, without coercion.
value_matches_type(desc, value) ==
  \/ desc.datatype = "UnsignedInteger" /\ value[1] = "Number"
  \/ desc.datatype = "Text" /\ value[1] = "Text"
  \/ desc.datatype = "Boolean" /\ value[1] = "Boolean"

\* --------------------------------------------------------------- encoding

\* postcard's to_allocvec of a BTreeMap<String, _>: the entries in key
\* order, each the key followed by the encoded value.  A ColumnDescriptor is
\* encoded field by field, a Value as its variant and payload.
EncodeDesc(d) ==
  <<d.datatype, d.not_null, d.unique, d.primary_key, d.auto_increment,
    d.default, d.foreign_key>>

RECURSIVE EncodeColumnEntries(_, _)
EncodeColumnEntries(columns, keys) ==
  IF keys = <<>> THEN <<>>
  ELSE <<<<Head(keys), EncodeDesc(columns[Head(keys)])>>>>
         \o EncodeColumnEntries(columns, Tail(keys))

to_allocvec_columns(columns) ==
  EncodeColumnEntries(columns, Sorted(DOMAIN columns))

EncodeValue(v) == <<v[1], v[2]>>

RECURSIVE EncodeRecordEntries(_, _)
EncodeRecordEntries(record, keys) ==
  IF keys = <<>> THEN <<>>
  ELSE <<<<Head(keys), EncodeValue(record[Head(keys)])>>>>
         \o EncodeRecordEntries(record, Tail(keys))

to_allocvec_record(record) ==
  EncodeRecordEntries(record, Sorted(DOMAIN record))

\* from_bytes::<ColumnDescriptors>: every entry must carry the seven fields
\* of a descriptor; the bytes of a record do not, and decoding them fails.
DecodesAsColumns(bytes) == \A i \in 1..Len(bytes) : Len(bytes[i][2]) = 7

DecodeDesc(f) == Desc(f[1], f[2], f[3], f[4], f[5], f[6], f[7])

from_bytes_columns(bytes) ==
  [n \in {bytes[i][1] : i \in 1..Len(bytes)} |->
     DecodeDesc((CHOOSE e \in {bytes[i] : i \in 1..Len(bytes)} : e[1] = n)[2])]

\* ----------------------------------------------------------------- store

\* A column family: the map from its keys to their bytes.
EmptyCf == [k \in {} |-> <<>>]

\* DB::put_cf, and one put of a WriteBatch once it is written.
Put(cf, key, bytes) ==
  [k \in DOMAIN cf \cup {key} |-> IF k = key THEN bytes ELSE cf[k]]

\* DB::write(WriteBatch): the puts of the batch, in the order staged.
RECURSIVE WriteBatch(_, _)
WriteBatch(cf, transaction) ==
  IF transaction = <<>> THEN cf
  ELSE WriteBatch(Put(cf, Head(transaction)[1], Head(transaction)[2]),
                  Tail(transaction))

\* DB::create_cf.
CreateCf(store, name) ==
  [t \in DOMAIN store \cup {name} |-> IF t = name THEN EmptyCf ELSE store[t]]

\* A store with column family name replaced by cf.
WithCf(store, name, cf) ==
  [t \in DOMAIN store |-> IF t = name THEN cf ELSE store[t]]

\* DB::list_cf: the column families found at the path.
ListCf(disk) == DOMAIN disk

\* DB::open_cf: the store with the column families asked for.
OpenCf(disk, cfs) == [t \in cfs |-> disk[t]]

\* DB::open on a path that holds no store: RocksDB's "default" family.
FreshStore == [t \in {"default"} |-> EmptyCf]

Ok(x) == <<"Ok", x>>

Err(kind) == <<"Err", kind>>

\* A table_metadata that answers an empty schema for a table it cannot find.
table_metadata_lenient(store, name) ==
  IF name \notin DOMAIN store THEN Ok(EmptyCf)
  ELSE IF TABLE_METADATA_KEY \notin DOMAIN store[name] THEN Ok(EmptyCf)
  ELSE IF ~DecodesAsColumns(store[name][TABLE_METADATA_KEY]) THEN Err("Codec")
  ELSE Ok(from_bytes_columns(store[name][TABLE_METADATA_KEY]))

\* StorageEngine::table_metadata.  "No table {} exists" and "No metadata for
\* table" are the spec's TableNotFoundError; a from_bytes failure is a codec
\* failure.
table_metadata(store, name) ==
  IF name \notin DOMAIN store THEN Err("TableNotFound")
  ELSE IF TABLE_METADATA_KEY \notin DOMAIN store[name] THEN Err("TableNotFound")
  ELSE IF ~DecodesAsColumns(store[name][TABLE_METADATA_KEY]) THEN Err("Codec")
  ELSE Ok(from_bytes_columns(store[name][TABLE_METADATA_KEY]))

\* StorageEngine::validate_table_options, over the columns in name order.
RECURSIVE validate_columns(_, _, _)
validate_columns(store, columns, keys) ==
  IF keys = <<>> THEN "Ok"
  ELSE LET props == columns[Head(keys)] IN
    IF props.foreign_key = None
    THEN validate_columns(store, columns, Tail(keys))
    ELSE LET table == props.foreign_key[1][1]
             col == props.foreign_key[1][2]
             table_meta == table_metadata(store, table)
         IN IF table_meta[1] # "Ok" THEN "ForeignKeyError"
            ELSE IF col \notin DOMAIN table_meta[2] THEN "ForeignKeyError"
            ELSE IF ~table_meta[2][col].primary_key THEN "ForeignKeyError"
            ELSE validate_columns(store, columns, Tail(keys))

validate_table_options(store, columns) ==
  validate_columns(store, columns, Sorted(DOMAIN columns))

\* A put_cf of the schema under a key other than the reserved one.
put_metadata_other_key(cf, columns) ==
  Put(cf, <<"metadata">>, to_allocvec_columns(columns))

\* create_table's put_cf of the schema under the reserved key.
put_metadata(cf, columns) ==
  Put(cf, TABLE_METADATA_KEY, to_allocvec_columns(columns))

\* create_table's loop over the auto-increment columns: AtomicUsize::new(1)
\* inserted under Entry {table, column}.
InitialCounter == 1

seed_counters(incs, name, columns) ==
  LET new == {<<name, c>> : c \in {x \in DOMAIN columns : columns[x].auto_increment}}
  IN [e \in DOMAIN incs \cup new |-> IF e \in new THEN InitialCounter ELSE incs[e]]

\* A key made of the names of all the columns, the primary keys included.
generate_pk_name_unfiltered(record, metadata) == Sorted(DOMAIN metadata)

\* A key made of the record's values for the columns that are not primary
\* keys (the name where the record has none).
generate_pk_name_from_values(record, metadata) ==
  LET names == Sorted({k \in DOMAIN metadata : ~metadata[k].primary_key})
  IN [i \in 1..Len(names) |->
        IF names[i] \in DOMAIN record THEN ToString(record[names[i]][2])
        ELSE names[i]]

\* generate_pk_name: the names of the columns that are not primary keys, in
\* name order, each followed by "/", the last "/" popped.  A key is modelled
\* as the sequence of its "/"-separated segments; the record is not read.
generate_pk_name(record, metadata) ==
  Sorted({k \in DOMAIN metadata : ~metadata[k].primary_key})

\* String::is_empty of a key: the key has no segment, or its one segment is
\* the empty name.
is_empty(name) == name = <<>> \/ name = <<"">>

\* A fetch_add that stores the value it read.
fetch_add_lost(value) == value

\* A fetch_add(2).
fetch_add_two(value) == value + 2

\* AtomicUsize::fetch_add(1): the value stored afterwards.
fetch_add(value) == value + 1

\* The value_actions of insert_rows, over the schema's columns in name order.
SeqRange(s) == {s[i] : i \in 1..Len(s)}

PushAction(action, rest) ==
  IF rest[1] = "Ok" THEN Ok(<<action>> \o rest[2]) ELSE rest

\* A check of line 155 that never finds the required column missing.
is_missing_never(columns, column) == FALSE

\* insert_rows, line 155: the required column is not among those supplied.
is_missing(columns, column) == column \notin SeqRange(columns)

RECURSIVE value_actions_from(_, _, _, _, _)
value_actions_from(keys, metadata, table, columns, incs) ==
  IF keys = <<>> THEN Ok(<<>>)
  ELSE LET column == Head(keys)
           desc == metadata[column]
           supplied == column \in SeqRange(columns)
           rest == value_actions_from(Tail(keys), metadata, table, columns, incs)
       IN IF needs_value(desc)
          THEN IF is_missing(columns, column) THEN Err("MissingColumn") ELSE rest
          ELSE IF ~supplied /\ should_generate(desc)
          THEN IF desc.default # None /\ desc.default[1][1] = "Value"
               THEN PushAction(<<column, <<"ApplyConstant",
                                           ValueTryFrom(desc.default[1][2])>>>>, rest)
               ELSE IF desc.default # None THEN Err("UnsupportedDefault")
               ELSE IF desc.auto_increment
               THEN IF <<table, column>> \in DOMAIN incs
                    THEN PushAction(<<column, <<"Increment", <<table, column>>>>>>, rest)
                    ELSE Err("NoCounter")
               ELSE Err("UngeneratableColumn")
          ELSE rest

\* InsertOptions::records: each row's values paired with the column names.
records(columns, values) ==
  [i \in 1..Len(values) |->
     [c \in SeqRange(columns) |->
        values[i][CHOOSE j \in 1..Len(columns) : columns[j] = c]]]

\* A check that accepts every record.
record_matches_any(metadata, record) == TRUE

\* insert_rows' check of one record against the schema.
record_matches(metadata, record) ==
  \A name \in DOMAIN record : value_matches_type(metadata[name], record[name])

\* ----------------------------------------------------------------- inputs

Callers == {1, 2}

\* tests::default_fixture.
UsersColumns ==
  [c \in {"id", "name", "city"} |->
     CASE c = "id" -> Desc("UnsignedInteger", TRUE, TRUE, TRUE, TRUE, None, None)
       [] c = "name" -> Desc("Text", TRUE, FALSE, FALSE, FALSE, None, None)
       [] c = "city" -> Desc("Text", TRUE, FALSE, FALSE, FALSE,
                             Some(ExprValue("SingleQuotedString", "London")), None)]

\* An auto-increment key that also carries a literal default.
SeqColumns ==
  [c \in {"id", "name"} |->
     CASE c = "id" -> Desc("UnsignedInteger", TRUE, TRUE, TRUE, TRUE,
                           Some(ExprValue("Number", 7)), None)
       [] c = "name" -> Desc("Text", TRUE, FALSE, FALSE, FALSE, None, None)]

\* A single non-key column, named like the reserved key.
MetaColumns ==
  [c \in {"id", "__metadata__"} |->
     CASE c = "id" -> Desc("UnsignedInteger", TRUE, TRUE, TRUE, TRUE, None, None)
       [] c = "__metadata__" -> Desc("Text", FALSE, FALSE, FALSE, FALSE, None, None)]

\* Every column a primary key.
KeyOnlyColumns ==
  [c \in {"id"} |-> Desc("UnsignedInteger", TRUE, TRUE, TRUE, TRUE, None, None)]

\* A default that is not a literal.
ExprColumns ==
  [c \in {"city", "name"} |->
     CASE c = "city" -> Desc("Text", FALSE, FALSE, FALSE, FALSE,
                             Some(ExprFunction("now")), None)
       [] c = "name" -> Desc("Text", TRUE, FALSE, FALSE, FALSE, None, None)]

\* A literal default of another type than its column's, and an
\* auto-increment key declared as text.
MistypedColumns ==
  [c \in {"city", "id", "name"} |->
     CASE c = "city" -> Desc("Text", TRUE, FALSE, FALSE, FALSE,
                             Some(ExprValue("Number", 7)), None)
       [] c = "id" -> Desc("Text", TRUE, TRUE, TRUE, TRUE, None, None)
       [] c = "name" -> Desc("Text", TRUE, FALSE, FALSE, FALSE, None, None)]

\* A single non-key column, whose name is the empty string.
BlankColumns ==
  [c \in {"", "id"} |->
     CASE c = "" -> Desc("Text", FALSE, FALSE, FALSE, FALSE,
                         Some(ExprValue("SingleQuotedString", "London")), None)
       [] c = "id" -> Desc("UnsignedInteger", TRUE, TRUE, TRUE, TRUE, None, None)]

\* A table with a foreign key fk = <<table, column>>.
OrdersColumns(fk) ==
  [c \in {"id", "user"} |->
     CASE c = "id" -> Desc("UnsignedInteger", TRUE, TRUE, TRUE, TRUE, None, None)
       [] c = "user" -> Desc("UnsignedInteger", TRUE, FALSE, FALSE, FALSE, None,
                             Some(fk))]

ForeignKeys ==
  {<<"users", "id">>, <<"users", "name">>, <<"users", "toshi">>,
   <<"ghost", "id">>, <<"orders", "id">>}

\* The CreateTableOptions the callers submit.
CreateRequests ==
  {[name |-> "users", columns |-> cols] :
     cols \in {UsersColumns, SeqColumns, MetaColumns, KeyOnlyColumns, ExprColumns,
               MistypedColumns, BlankColumns}}
  \cup {[name |-> "orders", columns |-> OrdersColumns(fk)] : fk \in ForeignKeys}
  \cup {[name |-> "default", columns |-> UsersColumns]}

\* The table names of the requests; "ghost" is never created.
TableNames == {"users", "orders", "default", "ghost"}

\* The column lists of the InsertOptions the callers submit.
ColumnLists ==
  {<<>>, <<"name">>, <<"city">>, <<"toshi">>, <<"id", "name">>, <<"id">>,
   <<"user">>, <<"__metadata__">>, <<"user", "toshi">>}

\* A value of the column's usual type, and one of no column's type here.
GoodValue(c) ==
  CASE c \in {"id", "user"} -> Number(5)
    [] c = "name" -> Text("Daniel")
    [] OTHER -> Text("London")

BadValue == Boolean(FALSE)

\* A row for the column list: good values, or a bad one in the first column.
Row(columns, good) ==
  [j \in 1..Len(columns) |->
     IF j = 1 /\ ~good THEN BadValue ELSE GoodValue(columns[j])]

\* The row lists for the column list: one to MaxRows rows, all good (bad = 0)
\* or with one bad row at any position.
RowLists(columns) ==
  UNION {
    {[i \in 1..n |-> Row(columns, i # bad)] :
       bad \in IF columns = <<>> THEN {0} ELSE 0..n} : n \in 1..MaxRows}

\* The tables the InsertOptions name: rows go to the users table, to a name
\* never created and to RocksDB's default family; the orders table stands for
\* the target of create_table's foreign-key validation.
InsertTables == {"users", "default", "ghost"}

InsertRequests ==
  UNION {{[table |-> t, columns |-> cols, values |-> vals] :
            vals \in RowLists(cols)} : t \in InsertTables, cols \in ColumnLists}

\* ------------------------------------------------------------------ state

VARIABLES
  disk,       \* the RocksDB store at the path: column family -> key -> bytes
  auto_incs,  \* StorageEngine::auto_incs: Entry <<table, column>> -> counter
  pc,         \* each caller's position in its call
  frame,      \* each caller's call: its arguments, locals and result
  opened,     \* the column families DB::list_cf found when the engine opened
  reopens,    \* how many times the store was closed and opened again
  created,    \* history: table -> the columns its create_table returned Ok for
  issued,     \* history: Entry -> <<caller, value>> of each fetch_add, in order
  omitted,    \* history: Entry -> rows of successful requests omitting it
  leaked      \* history: Entry -> values taken by calls that did not succeed

vars ==
  <<disk, auto_incs, pc, frame, opened, reopens, created, issued, omitted, leaked>>

NoFrame ==
  [op |-> "none", table |-> "", opts |-> EmptyCf, columns |-> <<>>,
   metadata |-> EmptyCf, bad_column |-> None, value_actions |-> <<>>,
   input |-> <<>>, rows |-> <<>>, nrows |-> 0,
   mismatch |-> FALSE, record |-> EmptyCf, todo |-> <<>>, transaction |-> <<>>,
   took |-> <<>>, result |-> "", returned |-> EmptyCf, pre_disk |-> EmptyCf,
   pre_incs |-> EmptyCf]

NoCounters == [e \in {} |-> 0]

\* StorageEngine::new_with_path on a path that holds no store.
Init ==
  /\ disk = FreshStore
  /\ auto_incs = NoCounters
  /\ pc = [p \in Callers |-> "idle"]
  /\ frame = [p \in Callers |-> NoFrame]
  /\ opened = {}
  /\ reopens = 0
  /\ created = EmptyCf
  /\ issued = NoCounters
  /\ omitted = NoCounters
  /\ leaked = NoCounters

\* A call ends: its result is kept in the frame until Return.
Finish(p, f, result) ==
  /\ pc' = [pc EXCEPT ![p] = "done"]
  /\ frame' = [frame EXCEPT ![p] = [f EXCEPT !.result = result]]

Goto(p, f, label) ==
  /\ pc' = [pc EXCEPT ![p] = label]
  /\ frame' = [frame EXCEPT ![p] = f]

\* ----------------------------------------------------------- create_table

\* create_table, line 92: validate_table_options.
CreateTable_Validate(p, opts) ==
  /\ pc[p] = "idle"
  /\ LET f == [NoFrame EXCEPT !.op = "create_table", !.table = opts.name,
                              !.opts = opts.columns, !.pre_disk = disk,
                              !.pre_incs = auto_incs]
         valid == validate_table_options(disk, opts.columns)
     IN IF valid # "Ok" THEN Finish(p, f, valid) ELSE Goto(p, f, "create_cf")
  /\ UNCHANGED <<disk, auto_incs, opened, reopens, created, issued, omitted, leaked>>

\* A create_cf that never refuses: an existing column family is replaced.
cf_exists_never(store, name) == FALSE

\* A create_cf that refuses only a column family that holds a schema.
cf_exists_without_metadata(store, name) ==
  name \in DOMAIN store /\ TABLE_METADATA_KEY \in DOMAIN store[name]

\* Whether DB::create_cf refuses the name: the column family exists.
cf_exists(store, name) == name \in DOMAIN store

\* create_table, lines 95-97: create_cf fails on a name that exists.
CreateTable_CreateCf(p) ==
  /\ pc[p] = "create_cf"
  /\ IF cf_exists(disk, frame[p].table)
     THEN /\ Finish(p, frame[p], "TableExists")
          /\ UNCHANGED disk
     ELSE /\ disk' = CreateCf(disk, frame[p].table)
          /\ Goto(p, frame[p], "put_cf")
  /\ UNCHANGED <<auto_incs, opened, reopens, created, issued, omitted, leaked>>

\* create_table, lines 102-106: the schema is put under the reserved key.
CreateTable_PutMetadata(p) ==
  /\ pc[p] = "put_cf"
  /\ disk' = WithCf(disk, frame[p].table,
                    put_metadata(disk[frame[p].table], frame[p].opts))
  /\ Goto(p, frame[p], "seed")
  /\ UNCHANGED <<auto_incs, opened, reopens, created, issued, omitted, leaked>>

\* create_table, lines 102-106: put_cf fails (a storage failure) and the
\* call returns with the column family created and no metadata in it.
CreateTable_PutFails(p) ==
  /\ pc[p] = "put_cf"
  /\ Finish(p, frame[p], "StorageError")
  /\ UNCHANGED <<disk, auto_incs, opened, reopens, created, issued, omitted, leaked>>

\* create_table, lines 108-121: the counters are seeded and Ok returned.
CreateTable_Seed(p) ==
  /\ pc[p] = "seed"
  /\ auto_incs' = seed_counters(auto_incs, frame[p].table, frame[p].opts)
  /\ omitted' = [e \in DOMAIN auto_incs' |->
                   IF e \in DOMAIN auto_incs THEN omitted[e] ELSE 0]
  /\ leaked' = [e \in DOMAIN auto_incs' |->
                  IF e \in DOMAIN auto_incs THEN leaked[e] ELSE 0]
  /\ issued' = [e \in DOMAIN auto_incs' |->
                  IF e \in DOMAIN auto_incs THEN issued[e] ELSE <<>>]
  /\ created' = [t \in DOMAIN created \cup {frame[p].table} |->
                   IF t = frame[p].table THEN frame[p].opts ELSE created[t]]
  /\ Finish(p, frame[p], "Ok")
  /\ UNCHANGED <<disk, opened, reopens>>

\* ------------------------------------------------------------ insert_rows

\* Whether some row carries a value that does not match the declared type of
\* its column (of the columns the schema has).
HasMismatch(metadata, recs) ==
  \E i \in 1..Len(recs) : \E c \in DOMAIN recs[i] \cap DOMAIN metadata :
     ~value_matches_type(metadata[c], recs[i][c])

\* The counters of the table stay within MaxCounter whatever the request
\* consumes.
WithinCounters(req) ==
  \A e \in DOMAIN auto_incs :
     e[1] = req.table => /\ auto_incs[e] + Len(req.values) <= MaxCounter
                         /\ omitted[e] + Len(req.values) < MaxCounter

\* A find that looks for the offending column in name order.
first_bad_column_by_name(columns, metadata) ==
  LET bad == Sorted({x \in SeqRange(columns) : x \notin DOMAIN metadata})
  IN IF bad = <<>> THEN None ELSE Some(Head(bad))

\* insert_rows, lines 142-146: Iterator::find over the supplied names, the
\* first of them in request order that the schema lacks.
first_bad_column(columns, metadata) ==
  IF \A j \in 1..Len(columns) : columns[j] \in DOMAIN metadata THEN None
  ELSE Some(columns[CHOOSE j \in 1..Len(columns) :
                      /\ columns[j] \notin DOMAIN metadata
                      /\ \A k \in 1..(j - 1) : columns[k] \in DOMAIN metadata])

\* insert_rows, lines 139-184: the schema is loaded, the supplied column
\* names are checked and the actions for the omitted columns are resolved.
InsertRows_Begin(p, req) ==
  /\ pc[p] = "idle"
  /\ WithinCounters(req)
  /\ LET meta == table_metadata(disk, req.table)
         f0 == [NoFrame EXCEPT !.op = "insert_rows", !.table = req.table,
                               !.columns = req.columns,
                               !.pre_disk = disk, !.pre_incs = auto_incs]
     IN IF meta[1] # "Ok" THEN Finish(p, f0, meta[2])
        ELSE LET metadata == meta[2]
                 recs == records(req.columns, req.values)
                 f1 == [f0 EXCEPT !.metadata = metadata,
                                  !.mismatch = HasMismatch(metadata, recs)]
                 bad == first_bad_column(req.columns, metadata)
             IN IF bad # None
                THEN Finish(p, [f1 EXCEPT !.bad_column = bad], "UnknownColumn")
                ELSE LET actions == value_actions_from(Sorted(DOMAIN metadata),
                                      metadata, req.table, req.columns, auto_incs)
                         f2 == [f1 EXCEPT !.input = recs]
                     IN IF actions[1] # "Ok" THEN Finish(p, f2, actions[2])
                        ELSE Goto(p, [f2 EXCEPT !.value_actions = actions[2],
                                                !.rows = recs,
                                                !.nrows = Len(recs)], "validate")
  /\ UNCHANGED <<disk, auto_incs, opened, reopens, created, issued, omitted, leaked>>

\* insert_rows, lines 186-192: the next record is checked against the
\* schema; after the last record the batch is ready to be written.
InsertRows_Validate(p) ==
  /\ pc[p] = "validate"
  /\ LET f == frame[p] IN
       IF f.rows = <<>> THEN Goto(p, f, "write")
       ELSE IF ~record_matches(f.metadata, Head(f.rows))
       THEN Finish(p, f, "TypeMismatch")
       ELSE Goto(p, [f EXCEPT !.record = Head(f.rows), !.rows = Tail(f.rows),
                              !.todo = f.value_actions],
                 IF f.value_actions = <<>> THEN "stage" ELSE "generate")
  /\ UNCHANGED <<disk, auto_incs, opened, reopens, created, issued, omitted, leaked>>

\* An Increment that yields the counter's value after fetch_add.
action_value_after(action, counter) ==
  IF action[1] = "Increment" THEN Number(counter + 1) ELSE action[2]

\* The value an action yields, given the counter's value before fetch_add.
action_value(action, counter) ==
  IF action[1] = "Increment" THEN Number(counter) ELSE action[2]

\* insert_rows, lines 195-204: one action of value_actions fills its column;
\* an Increment is one fetch_add on the Entry's counter.
InsertRows_Generate(p) ==
  /\ pc[p] = "generate"
  /\ LET f == frame[p]
         column == Head(f.todo)[1]
         action == Head(f.todo)[2]
         counter == IF action[1] = "Increment" THEN auto_incs[action[2]] ELSE 0
         value == action_value(action, counter)
         record == [c \in DOMAIN f.record \cup {column} |->
                      IF c = column THEN value ELSE f.record[c]]
     IN /\ IF action[1] = "Increment"
           THEN /\ auto_incs' = [auto_incs EXCEPT ![action[2]] = fetch_add(counter)]
                /\ issued' = [issued EXCEPT ![action[2]] = Append(@, <<p, value[2]>>)]
           ELSE UNCHANGED <<auto_incs, issued>>
        /\ Goto(p, [f EXCEPT !.record = record, !.todo = Tail(f.todo),
                            !.took = IF action[1] = "Increment"
                                     THEN Append(f.took, action[2]) ELSE f.took],
                IF Tail(f.todo) = <<>> THEN "stage" ELSE "generate")
  /\ UNCHANGED <<disk, opened, reopens, created, omitted, leaked>>

\* A DB::put_cf in the place of WriteBatch::put_cf: the put goes to the store.
put_in_store(store, transaction, table, pk, bytes) ==
  [store |-> WithCf(store, table, Put(store[table], pk, bytes)),
   transaction |-> Append(transaction, <<pk, bytes>>)]

\* A row that is encoded and then left out of the batch.
put_not_staged(store, transaction, table, pk, bytes) ==
  [store |-> store, transaction |-> transaction]

\* WriteBatch::put_cf, line 210: the put is staged in the batch and the store
\* is not touched.
put_in_batch(store, transaction, table, pk, bytes) ==
  [store |-> store, transaction |-> Append(transaction, <<pk, bytes>>)]

\* insert_rows, lines 206-210: the key is derived (generate_pk_name asserts
\* that it is not empty) and the encoded record is staged in the batch.
InsertRows_Stage(p) ==
  /\ pc[p] = "stage"
  /\ LET f == frame[p]
         pk == generate_pk_name(f.record, f.metadata)
         put == put_in_batch(disk, f.transaction, f.table, pk,
                             to_allocvec_record(f.record))
     IN IF is_empty(pk)
        THEN /\ Finish(p, f, "Panic")
             /\ UNCHANGED disk
        ELSE /\ disk' = put.store
             /\ Goto(p, [f EXCEPT !.transaction = put.transaction,
                                  !.record = EmptyCf], "validate")
  /\ UNCHANGED <<auto_incs, opened, reopens, created, issued, omitted, leaked>>

\* The rows a successful request adds to the history of each counter whose
\* column the request omitted.
CountOmitted(f) ==
  [e \in DOMAIN omitted |->
     IF e[1] = f.table /\ e[2] \notin SeqRange(f.columns)
     THEN omitted[e] + f.nrows ELSE omitted[e]]

\* insert_rows, line 212: DB::write applies the whole batch to the table's
\* column family.
write(store, table, transaction) ==
  WithCf(store, table, WriteBatch(store[table], transaction))

\* insert_rows, lines 212-213: the batch is written in one step.
InsertRows_Write(p) ==
  /\ pc[p] = "write"
  /\ disk' = write(disk, frame[p].table, frame[p].transaction)
  /\ omitted' = CountOmitted(frame[p])
  /\ Finish(p, frame[p], "Ok")
  /\ UNCHANGED <<auto_incs, opened, reopens, created, issued, leaked>>

\* insert_rows, line 212: DB::write fails (a storage failure); nothing of
\* the batch is applied.
InsertRows_WriteFails(p) ==
  /\ pc[p] = "write"
  /\ Finish(p, frame[p], "StorageError")
  /\ UNCHANGED <<disk, auto_incs, opened, reopens, created, issued, omitted, leaked>>

\* --------------------------------------------------------- table_metadata

\* table_metadata as a public call: a read.
TableMetadata(p, name) ==
  /\ pc[p] = "idle"
  /\ LET meta == table_metadata(disk, name)
         f == [NoFrame EXCEPT !.op = "table_metadata", !.table = name,
                              !.pre_disk = disk, !.pre_incs = auto_incs]
     IN IF meta[1] = "Ok" THEN Finish(p, [f EXCEPT !.returned = meta[2]], "Ok")
        ELSE Finish(p, f, meta[2])
  /\ UNCHANGED <<disk, auto_incs, opened, reopens, created, issued, omitted, leaked>>

\* ----------------------------------------------------------- the engine

\* The caller takes the result; the counter values a failed insert_rows took
\* are remembered.
Count(s, x) == Cardinality({i \in 1..Len(s) : s[i] = x})

Return(p) ==
  /\ pc[p] = "done"
  /\ pc' = [pc EXCEPT ![p] = "idle"]
  /\ frame' = [frame EXCEPT ![p] = NoFrame]
  /\ leaked' = IF frame[p].result # "Ok"
               THEN [e \in DOMAIN leaked |-> leaked[e] + Count(frame[p].took, e)]
               ELSE leaked
  /\ UNCHANGED <<disk, auto_incs, opened, reopens, created, issued, omitted>>

\* An open that attaches to RocksDB's default column family alone.
open_store_default_only(store) == OpenCf(store, {"default"})

\* StorageEngine::new_with_path on the path of a store that was closed:
\* list_cf, open_cf with what it lists, and an empty auto_incs.
open_store(store) == OpenCf(store, ListCf(store))

Reopen ==
  /\ \A p \in Callers : pc[p] = "idle"
  /\ reopens < MaxReopens
  /\ reopens' = reopens + 1
  /\ disk' = open_store(disk)
  /\ opened' = ListCf(disk)
  /\ auto_incs' = NoCounters
  /\ omitted' = NoCounters
  /\ issued' = NoCounters
  /\ leaked' = NoCounters
  /\ UNCHANGED <<pc, frame, created>>

\* One statement of a call of caller p.
Step(p) ==
  \/ \E opts \in CreateRequests : CreateTable_Validate(p, opts)
  \/ CreateTable_CreateCf(p)
  \/ CreateTable_PutMetadata(p)
  \/ CreateTable_PutFails(p)
  \/ CreateTable_Seed(p)
  \/ \E req \in InsertRequests : InsertRows_Begin(p, req)
  \/ InsertRows_Validate(p)
  \/ InsertRows_Generate(p)
  \/ InsertRows_Stage(p)
  \/ InsertRows_Write(p)
  \/ InsertRows_WriteFails(p)
  \/ \E name \in TableNames : TableMetadata(p, name)
  \/ Return(p)

\* insert_rows and create_table take &mut self: one call at a time.
Next == Step(1) \/ Reopen

Spec == Init /\ [][Next]_vars

\* The requests of the callers that share the engine across threads: the
\* test fixture's table, and rows for it that leave the key to the counter.
ConcCreateRequests == {[name |-> "users", columns |-> UsersColumns]}

ConcInsertRequests ==
  {[table |-> "users", columns |-> <<"name">>, values |-> vals] :
     vals \in RowLists(<<"name">>)}

\* One statement of a call of caller p, when calls of several callers
\* interleave statement by statement (a fetch_add is one statement).
ConcStep(p) ==
  \/ \E opts \in ConcCreateRequests : CreateTable_Validate(p, opts)
  \/ CreateTable_CreateCf(p)
  \/ CreateTable_PutMetadata(p)
  \/ CreateTable_PutFails(p)
  \/ CreateTable_Seed(p)
  \/ \E req \in ConcInsertRequests : InsertRows_Begin(p, req)
  \/ InsertRows_Validate(p)
  \/ InsertRows_Generate(p)
  \/ InsertRows_Stage(p)
  \/ InsertRows_Write(p)
  \/ InsertRows_WriteFails(p)
  \/ Return(p)

NextConc == \E p \in Callers : ConcStep(p)

SpecConc == Init /\ [][NextConc]_vars

\* One statement of a create_table of caller p, when the create_table calls
\* of several callers interleave statement by statement.
RaceStep(p) ==
  \/ \E opts \in CreateRequests : CreateTable_Validate(p, opts)
  \/ CreateTable_CreateCf(p)
  \/ CreateTable_PutMetadata(p)
  \/ CreateTable_PutFails(p)
  \/ CreateTable_Seed(p)
  \/ Return(p)

NextRace == \E p \in Callers : RaceStep(p)

SpecRace == Init /\ [][NextRace]_vars

\* ----------------------------------------------------------------- claims

Done(p, op) == pc[p] = "done" /\ frame[p].op = op

\* The call of caller p left the store and the counters as it found them.
Untouched(p) ==
  /\ disk = frame[p].pre_disk
  /\ auto_incs = frame[p].pre_incs

NoForeignKeys(columns) ==
  \A c \in DOMAIN columns : columns[c].foreign_key = None

\* The column has a foreign key that names a table without a readable schema
\* in the store, a column the table's schema lacks, or a column that is not
\* a primary key there.
DanglingForeignKey(store, desc) ==
  /\ desc.foreign_key # None
  /\ LET m == table_metadata(store, desc.foreign_key[1][1])
         col == desc.foreign_key[1][2]
     IN \/ m[1] # "Ok"
        \/ col \notin DOMAIN m[2]
        \/ ~m[2][col].primary_key

\* C1: when create_table of options without foreign keys returns Ok,
\* table_metadata of the options' name returns a schema equal to the
\* options' columns: the same column names, the same descriptor for each.
C1_CreateThenMetadata ==
  \A p \in Callers :
    (Done(p, "create_table") /\ frame[p].result = "Ok"
       /\ NoForeignKeys(frame[p].opts))
    => table_metadata(disk, frame[p].table) = Ok(frame[p].opts)

\* A create_table of the test fixture (a default, an auto-increment key) has
\* returned Ok on a name that did not exist.
C1_Witness ==
  \E p \in Callers :
    /\ Done(p, "create_table") /\ frame[p].result = "Ok"
    /\ frame[p].opts = UsersColumns
    /\ frame[p].table \notin DOMAIN frame[p].pre_disk

\* C2 as claimed: create_table on a name whose column family exists fails
\* with TableExistsError, whatever schema it carries, and leaves the store
\* and the counters unchanged.
C2_Original ==
  \A p \in Callers :
    (Done(p, "create_table") /\ frame[p].table \in DOMAIN frame[p].pre_disk)
    => frame[p].result = "TableExists" /\ Untouched(p)

\* C2 as amended: create_table on a name whose column family exists fails,
\* with ForeignKeyError when a foreign key of the schema it carries does not
\* validate (the validation comes first) and with TableExistsError otherwise,
\* and it leaves the persisted schema, the stored rows and the counters of
\* the existing table unchanged (no counter is reseeded).
C2_ExistingTableUnchanged ==
  \A p \in Callers :
    (Done(p, "create_table") /\ frame[p].table \in DOMAIN frame[p].pre_disk)
    => /\ frame[p].result =
            IF \E c \in DOMAIN frame[p].opts :
                 DanglingForeignKey(frame[p].pre_disk, frame[p].opts[c])
            THEN "ForeignKeyError" ELSE "TableExists"
       /\ Untouched(p)

\* A second create_table has failed with TableExistsError on a table that
\* holds a row and whose counter has advanced beyond its seed.
C2_Witness ==
  \E p \in Callers :
    /\ Done(p, "create_table") /\ frame[p].result = "TableExists"
    /\ frame[p].table \in DOMAIN created
    /\ Cardinality(DOMAIN disk[frame[p].table]) >= 2
    /\ \E e \in DOMAIN auto_incs : e[1] = frame[p].table /\ auto_incs[e] > 1

\* C3: table_metadata and insert_rows on a table name that no create_table
\* returned Ok for fail with TableNotFoundError and create no column family,
\* write no key and create or change no counter.
C3_UnknownTable ==
  \A p \in Callers :
    ((Done(p, "table_metadata") \/ Done(p, "insert_rows"))
       /\ frame[p].table \notin DOMAIN created)
    => frame[p].result = "TableNotFound" /\ Untouched(p)

\* An insert_rows into a table that was never created has failed while
\* another table exists with its counters.
C3_Witness ==
  \E p \in Callers :
    /\ Done(p, "insert_rows") /\ frame[p].result = "TableNotFound"
    /\ frame[p].table = "ghost"
    /\ auto_incs # NoCounters

\* The error insert_rows raises before it looks at any row, as steps 2 and 3
\* of the insert algorithm order the checks: the supplied names first, then
\* the omitted columns in name order; "" when no check fails.
OmittedKind(desc, entry, incs) ==
  IF needs_value(desc) THEN "MissingColumn"
  ELSE IF desc.default # None
  THEN IF desc.default[1][1] = "Value" THEN "" ELSE "UnsupportedDefault"
  ELSE IF entry \in DOMAIN incs THEN "" ELSE "NoCounter"

ExpectedBeginError(metadata, table, columns, incs) ==
  IF \E x \in SeqRange(columns) : x \notin DOMAIN metadata THEN "UnknownColumn"
  ELSE LET bad == {c \in DOMAIN metadata \ SeqRange(columns) :
                     OmittedKind(metadata[c], <<table, c>>, incs) # ""}
       IN IF bad = {} THEN ""
          ELSE LET first == CHOOSE c \in bad : \A d \in bad : Rank(c) <= Rank(d)
               IN OmittedKind(metadata[first], <<table, first>>, incs)

\* The request of caller p omits a column of the schema that needs a value.
OmitsRequired(p) ==
  \E c \in DOMAIN frame[p].metadata :
     needs_value(frame[p].metadata[c]) /\ c \notin SeqRange(frame[p].columns)

\* C4 as claimed: insert_rows that omits a schema column for which
\* needs_value() is true fails with MissingColumnError; no row is persisted
\* and no counter is advanced.
C4_Original ==
  \A p \in Callers :
    (Done(p, "insert_rows") /\ OmitsRequired(p))
    => frame[p].result = "MissingColumn" /\ Untouched(p)

\* C4 as amended: insert_rows that omits a schema column for which
\* needs_value() is true fails, for any number of rows, with the error of the
\* first check that fails: UnknownColumnError when a supplied name is not in
\* the schema; otherwise, over the omitted columns in name order,
\* MissingColumnError for a required column, UnsupportedDefaultError for a
\* non-literal default, NoCounterError for an auto-increment column without a
\* counter.  No row is persisted and no counter is advanced.
C4_MissingRequiredColumn ==
  \A p \in Callers :
    (Done(p, "insert_rows") /\ OmitsRequired(p))
    => /\ frame[p].result \in
            {"MissingColumn", "UnknownColumn", "UnsupportedDefault", "NoCounter"}
       /\ frame[p].result =
            ExpectedBeginError(frame[p].metadata, frame[p].table,
                               frame[p].columns, frame[p].pre_incs)
       /\ Untouched(p)

\* An insert_rows that omits the required column of a table that has a live
\* counter and a stored row has failed with MissingColumnError.
C4_Witness ==
  \E p \in Callers :
    /\ Done(p, "insert_rows") /\ OmitsRequired(p)
    /\ frame[p].result = "MissingColumn"
    /\ \E e \in DOMAIN auto_incs : e[1] = frame[p].table
    /\ Cardinality(DOMAIN disk[frame[p].table]) >= 2

AllPrimaryKeys(metadata) == \A c \in DOMAIN metadata : metadata[c].primary_key

\* The row key the schema yields is the empty string.
EmptyRowKey(metadata) == is_empty(generate_pk_name(EmptyCf, metadata))

\* C5 as claimed: insert_rows in which a row carries a value that does not
\* match its column's datatype fails with TypeMismatchError, and the store is
\* as it was before the call.
C5_Original ==
  \A p \in Callers :
    (Done(p, "insert_rows") /\ frame[p].mismatch)
    => frame[p].result = "TypeMismatch" /\ disk = frame[p].pre_disk

\* C5 as amended: insert_rows in which any row (first, middle or last)
\* carries a value that does not match its column's datatype fails and
\* rejects the whole request, the store being as it was before the call.  The
\* error is the one of the first check that fails: one of the checks made
\* before any row (unknown column, missing required column, unsupported
\* default, missing counter); else TypeMismatchError, except that on a schema
\* whose row key is empty (every column a primary key, or one non-key column
\* with the empty name) the key assertion may fail on a valid row that
\* precedes the offending one.
C5_TypeMismatchRejectsAll ==
  \A p \in Callers :
    (Done(p, "insert_rows") /\ frame[p].mismatch)
    => /\ disk = frame[p].pre_disk
       /\ LET begin == ExpectedBeginError(frame[p].metadata, frame[p].table,
                                          frame[p].columns, frame[p].pre_incs)
          IN IF begin # "" THEN frame[p].result = begin
             ELSE IF EmptyRowKey(frame[p].metadata)
             THEN frame[p].result \in {"TypeMismatch", "Panic"}
             ELSE frame[p].result = "TypeMismatch"

\* A request whose offending row follows valid, already staged rows has
\* failed with TypeMismatchError on a table that already held a row.
C5_Witness ==
  \E p \in Callers :
    /\ Done(p, "insert_rows") /\ frame[p].mismatch
    /\ frame[p].result = "TypeMismatch"
    /\ Len(frame[p].transaction) >= 2
    /\ Cardinality(DOMAIN frame[p].pre_disk[frame[p].table]) >= 2

\* No call of an insert_rows or create_table is under way, or the call of
\* caller p has just returned Ok.
Settled ==
  \A p \in Callers : pc[p] = "idle" \/ (pc[p] = "done" /\ frame[p].result = "Ok")

\* The values of the fetch_adds on the entry, in the order they happened.
IssuedValues(e) == [i \in 1..Len(issued[e]) |-> issued[e][i][2]]

\* The row stored in the table (the value under the one key that is not the
\* reserved key) carries value v in column c.
StoredRowHas(t, c, v) ==
  \E k \in DOMAIN disk[t] :
     /\ ~DecodesAsColumns(disk[t][k])
     /\ \E i \in 1..Len(disk[t][k]) : disk[t][k][i] = <<c, EncodeValue(v)>>

\* C6 as claimed: for every auto-increment column c of table t, when no
\* insert_rows that took a value of the counter has failed, the counter (t,c)
\* is 1 + the number of rows inserted by the successful requests that
\* omitted c, and those rows were assigned 1, 2, 3, ... in order.
C6_Original ==
  Settled =>
    \A e \in DOMAIN auto_incs :
       leaked[e] = 0 =>
         /\ auto_incs[e] = 1 + omitted[e]
         /\ IssuedValues(e) = [i \in 1..omitted[e] |-> i]

\* C6 as amended: the claim holds for every auto-increment column that has
\* no default: its counter is 1 right after create_table and 1 + the rows
\* inserted by successful requests that omitted it, which were assigned
\* 1, 2, 3, ... in call order and input row order; requests that supply the
\* column leave the counter unchanged.  An auto-increment column that also has
\* a literal default is filled with the default when omitted: its counter
\* stays at 1 and no value of it is assigned.
C6_CounterCountsGeneratedRows ==
  /\ \A p \in Callers :
       (Done(p, "create_table") /\ frame[p].result = "Ok")
       => \A c \in DOMAIN frame[p].opts :
            frame[p].opts[c].auto_increment
            => /\ <<frame[p].table, c>> \in DOMAIN auto_incs
               /\ auto_incs[<<frame[p].table, c>>] = 1
  /\ Settled =>
       \A e \in DOMAIN auto_incs :
          leaked[e] = 0 =>
            IF created[e[1]][e[2]].default = None
            THEN /\ auto_incs[e] = 1 + omitted[e]
                 /\ IssuedValues(e) = [i \in 1..omitted[e] |-> i]
            ELSE /\ auto_incs[e] = 1
                 /\ IssuedValues(e) = <<>>

\* Two rows were generated for a column without default by successful
\* requests, and the last successful request supplied the column itself.
C6_Witness ==
  /\ Settled
  /\ \E e \in DOMAIN auto_incs :
       /\ leaked[e] = 0
       /\ created[e[1]][e[2]].default = None
       /\ auto_incs[e] = 3
       /\ omitted[e] = 2
       /\ StoredRowHas(e[1], e[2], Number(5))

InsertUnderWay(p) ==
  /\ frame[p].op = "insert_rows"
  /\ pc[p] \in {"validate", "generate", "stage", "write"}

\* C7: insert_rows is all-or-nothing with respect to the store.  While the
\* call runs, and after it has failed for whatever reason (the commit
\* included), the store is as it was before the call; once it has returned
\* Ok the store is the one before the call with every put of the request
\* applied, one per row: no state in between is ever visible.
C7_AllOrNothing ==
  \A p \in Callers :
    /\ (InsertUnderWay(p) \/ (Done(p, "insert_rows") /\ frame[p].result # "Ok"))
       => disk = frame[p].pre_disk
    /\ (Done(p, "insert_rows") /\ frame[p].result = "Ok")
       => /\ Len(frame[p].transaction) = frame[p].nrows
          /\ disk = WithCf(frame[p].pre_disk, frame[p].table,
                           WriteBatch(frame[p].pre_disk[frame[p].table],
                                      frame[p].transaction))

\* The commit of a batch of several rows has failed.
C7_Witness ==
  \E p \in Callers :
    /\ Done(p, "insert_rows") /\ frame[p].result = "StorageError"
    /\ Len(frame[p].transaction) >= 2

\* C8: when insert_rows calls on one table interleave, the values handed out
\* for one Entry never repeat, whichever calls and rows they went to, and the
\* values each caller receives are strictly increasing.
C8_NoRepeatedIds ==
  \A e \in DOMAIN issued :
    \A i, j \in 1..Len(issued[e]) :
      /\ i # j => issued[e][i][2] # issued[e][j][2]
      /\ (i < j /\ issued[e][i][1] = issued[e][j][1])
         => issued[e][i][2] < issued[e][j][2]

\* Two insert_rows calls are under way at once and their fetch_adds on one
\* Entry have alternated: caller 1, caller 2, caller 1.
C8_Witness ==
  /\ \A p \in Callers : InsertUnderWay(p)
  /\ \E e \in DOMAIN issued :
       \E i \in 1..Len(issued[e]) :
          /\ i + 2 <= Len(issued[e])
          /\ issued[e][i][1] = 1
          /\ issued[e][i + 1][1] = 2
          /\ issued[e][i + 2][1] = 1

\* The request of caller p is for a table that was in the store when the
\* engine opened and omits an auto-increment column of it: any such column
\* (any = TRUE) or one without a default.
OmitsOldCounter(p, any) ==
  /\ frame[p].table \in opened
  /\ frame[p].table \in DOMAIN created
  /\ \E c \in DOMAIN created[frame[p].table] :
       /\ created[frame[p].table][c].auto_increment
       /\ any \/ created[frame[p].table][c].default = None
       /\ c \notin SeqRange(frame[p].columns)

\* The error of insert_rows' steps 1 to 3 for the call of caller p.
ExpectedError(p) ==
  LET m == table_metadata(frame[p].pre_disk, frame[p].table) IN
    IF m[1] # "Ok" THEN m[2]
    ELSE ExpectedBeginError(m[2], frame[p].table, frame[p].columns,
                            frame[p].pre_incs)

\* C9 as claimed: on a reopened engine, insert_rows that omits an
\* auto-increment column of a pre-existing table fails with NoCounterError
\* and changes neither the store nor any counter.
C9_Original ==
  \A p \in Callers :
    (Done(p, "insert_rows") /\ OmitsOldCounter(p, TRUE))
    => frame[p].result = "NoCounter" /\ Untouched(p)

\* C9 as amended: closing and reopening leaves table_metadata of every table
\* as it was and the counter map empty.  Afterwards no counter exists for a
\* pre-existing table, so insert_rows that omits an auto-increment column
\* without default of such a table fails and changes neither the store nor
\* any counter: with NoCounterError, unless an earlier check fails first (the
\* schema cannot be read, a supplied name is unknown, or an omitted column
\* earlier in name order is required or has a non-literal default).  An
\* omitted auto-increment column with a literal default is filled with the
\* default, and that insert can succeed.  create_table of a new table on the
\* reopened engine seeds the counters of that table only.
C9_Reopen ==
  /\ [][reopens' # reopens =>
          /\ \A t \in TableNames :
               table_metadata(disk', t) = table_metadata(disk, t)
          /\ auto_incs' = NoCounters]_vars
  /\ [](\A e \in DOMAIN auto_incs : e[1] \notin opened)
  /\ [](\A p \in Callers :
          /\ (Done(p, "insert_rows") /\ OmitsOldCounter(p, FALSE))
             => /\ frame[p].result # "Ok"
                /\ frame[p].result = ExpectedError(p)
                /\ Untouched(p)
          /\ (Done(p, "create_table") /\ frame[p].result = "Ok")
             => /\ \A e \in DOMAIN auto_incs \ DOMAIN frame[p].pre_incs :
                     e[1] = frame[p].table
                /\ \A e \in DOMAIN frame[p].pre_incs :
                     e \in DOMAIN auto_incs /\ auto_incs[e] = frame[p].pre_incs[e])

\* On a reopened engine that has since created a table with a counter, an
\* insert_rows into a pre-existing table has failed with NoCounterError.
C9_Witness ==
  /\ reopens > 0
  /\ auto_incs # NoCounters
  /\ \E p \in Callers :
       /\ Done(p, "insert_rows") /\ OmitsOldCounter(p, FALSE)
       /\ frame[p].result = "NoCounter"

\* C10: create_table fails with ForeignKeyError when a foreign key of its
\* schema names a table that does not exist, a column absent from the
\* table's schema or a column that is not a primary key there, and then
\* creates no column family, writes no metadata and seeds no counter; so
\* every foreign key of every persisted schema refers to an existing table
\* and to a column flagged primary_key in its persisted schema.
C10_ForeignKeysResolve ==
  /\ \A p \in Callers :
       (Done(p, "create_table")
          /\ \E c \in DOMAIN frame[p].opts :
               DanglingForeignKey(frame[p].pre_disk, frame[p].opts[c]))
       => frame[p].result = "ForeignKeyError" /\ Untouched(p)
  /\ \A t \in DOMAIN disk :
       LET m == table_metadata(disk, t) IN
         m[1] = "Ok" => \A c \in DOMAIN m[2] : ~DanglingForeignKey(disk, m[2][c])

\* The rows in the namespace of table t: the bytes under every key other
\* than the reserved one, each a sequence of <<column, value>> entries.
StoredRows(t) == {disk[t][k] : k \in DOMAIN disk[t] \ {TABLE_METADATA_KEY}}

\* C11: in every reachable state, every value of every row stored in a
\* table's namespace (supplied by the caller, filled from a literal default
\* or generated from a counter) has the variant that the declared datatype
\* of its column in the table's persisted schema accepts.
C11_StoredValuesMatchTypes ==
  \A t \in DOMAIN disk :
    LET m == table_metadata(disk, t) IN
      m[1] = "Ok" =>
        \A row \in StoredRows(t) : \A i \in 1..Len(row) :
           /\ row[i][1] \in DOMAIN m[2]
           /\ value_matches_type(m[2][row[i][1]], row[i][2])

\* C12: once create_table of a table has returned Ok, table_metadata of the
\* table returns the schema given at creation, whatever insert_rows and
\* create_table calls follow and whatever the names of the schema's columns.
C12_MetadataWrittenOnce ==
  \A t \in DOMAIN created : table_metadata(disk, t) = Ok(created[t])

\* The column names of an encoded row, and the value it carries for one.
RowKeys(row) == {row[i][1] : i \in 1..Len(row)}

RowValue(row, c) == (CHOOSE e \in SeqRange(row) : e[1] = c)[2]

\* The column's default is a literal constant.
DefaultLiteral(desc) == desc.default # None /\ desc.default[1][1] = "Value"

\* The i-th row the call of caller p staged.
StagedRow(p, i) == frame[p].transaction[i][2]

\* The value of the counter of column c of the call's table before the call,
\* advanced once for each row before the i-th.
CounterValueFor(p, c, i) ==
  Number(frame[p].pre_incs[<<frame[p].table, c>>] + i - 1)

HasCounterBefore(p, c) == <<frame[p].table, c>> \in DOMAIN frame[p].pre_incs

\* C13 as claimed: every row written by a successful insert_rows has the
\* schema's column names as its keys; a supplied column carries the value
\* supplied for the row, an omitted column with a literal default carries
\* the constant, and an omitted auto-increment column carries the counter's
\* value before its increment for that row; UngeneratableColumnError is
\* never returned.
C13_Original ==
  \A p \in Callers :
    /\ Done(p, "insert_rows") => frame[p].result # "UngeneratableColumn"
    /\ (Done(p, "insert_rows") /\ frame[p].result = "Ok")
       => /\ Len(frame[p].transaction) = frame[p].nrows
          /\ \A i \in 1..frame[p].nrows :
               /\ RowKeys(StagedRow(p, i)) = DOMAIN frame[p].metadata
               /\ \A c \in DOMAIN frame[p].metadata :
                    LET desc == frame[p].metadata[c]
                        supplied == c \in SeqRange(frame[p].columns)
                        value == RowValue(StagedRow(p, i), c)
                    IN /\ supplied => value = EncodeValue(frame[p].input[i][c])
                       /\ (~supplied /\ DefaultLiteral(desc))
                          => value = EncodeValue(ValueTryFrom(desc.default[1][2]))
                       /\ (~supplied /\ desc.auto_increment)
                          => /\ HasCounterBefore(p, c)
                             /\ value = EncodeValue(CounterValueFor(p, c, i))

\* C13 as amended: every row written by a successful insert_rows has exactly
\* the schema's column names as its keys; a supplied column carries the
\* value supplied for the row (it takes precedence over a default and over
\* auto-increment), an omitted column with a literal default carries the
\* constant (the same for every row, and also when the column is
\* auto-increment), and an omitted auto-increment column that has no default
\* carries the counter's value before its increment for that row.  No
\* omitted column is left without a value and UngeneratableColumnError is
\* never returned.
C13_RowContents ==
  \A p \in Callers :
    /\ Done(p, "insert_rows") => frame[p].result # "UngeneratableColumn"
    /\ (Done(p, "insert_rows") /\ frame[p].result = "Ok")
       => /\ Len(frame[p].transaction) = frame[p].nrows
          /\ \A i \in 1..frame[p].nrows :
               /\ RowKeys(StagedRow(p, i)) = DOMAIN frame[p].metadata
               /\ \A c \in DOMAIN frame[p].metadata :
                    LET desc == frame[p].metadata[c]
                        supplied == c \in SeqRange(frame[p].columns)
                        value == RowValue(StagedRow(p, i), c)
                    IN /\ supplied => value = EncodeValue(frame[p].input[i][c])
                       /\ (~supplied /\ DefaultLiteral(desc))
                          => value = EncodeValue(ValueTryFrom(desc.default[1][2]))
                       /\ (~supplied /\ desc.auto_increment /\ desc.default = None)
                          => /\ HasCounterBefore(p, c)
                             /\ value = EncodeValue(CounterValueFor(p, c, i))

\* An insert_rows of several rows, each with the name alone, into the test
\* fixture's table has returned Ok; the counter of id had advanced before.
C13_Witness ==
  \E p \in Callers :
    /\ Done(p, "insert_rows") /\ frame[p].result = "Ok"
    /\ frame[p].metadata = UsersColumns
    /\ frame[p].columns = <<"name">>
    /\ frame[p].nrows >= 2
    /\ HasCounterBefore(p, "id")
    /\ frame[p].pre_incs[<<"users", "id">>] > 1

\* The 1-based index of the first row of the request of caller p that does
\* not match the schema; 0 when every row matches.
FirstMismatchRow(p) ==
  LET bad == {i \in 1..Len(frame[p].input) :
                ~record_matches(frame[p].metadata, frame[p].input[i])}
  IN IF bad = {} THEN 0 ELSE CHOOSE i \in bad : \A k \in bad : i <= k

\* The request of caller p draws the values of an omitted column from the
\* counter of entry e.
UsesCounter(p, e) ==
  \E a \in SeqRange(frame[p].value_actions) : a[2] = <<"Increment", e>>

\* C14: when insert_rows fails with TypeMismatchError at the row with
\* 0-based index j, every counter the request uses has advanced by exactly
\* j, one for each earlier row and none for the failing row, every other
\* counter is as it was and the store is unchanged.  The values taken are
\* not given back: the first id a later successful insert is assigned is 1 +
\* the rows generated by successful requests + the values taken by failed
\* ones, so that it leaves a gap of j after this failure.
C14_FailedRowsKeepCounterValues ==
  /\ \A p \in Callers :
       (Done(p, "insert_rows") /\ frame[p].result = "TypeMismatch")
       => /\ FirstMismatchRow(p) >= 1
          /\ disk = frame[p].pre_disk
          /\ DOMAIN auto_incs = DOMAIN frame[p].pre_incs
          /\ \A e \in DOMAIN auto_incs :
               auto_incs[e] = frame[p].pre_incs[e]
                 + (IF UsesCounter(p, e) THEN FirstMismatchRow(p) - 1 ELSE 0)
          /\ \A e \in DOMAIN auto_incs :
               Count(frame[p].took, e)
                 = (IF UsesCounter(p, e) THEN FirstMismatchRow(p) - 1 ELSE 0)
  /\ \A p \in Callers :
       (Done(p, "insert_rows") /\ frame[p].result = "Ok")
       => \A e \in DOMAIN auto_incs :
            UsesCounter(p, e)
            => RowValue(StagedRow(p, 1), e[2])
                 = EncodeValue(Number(1 + (omitted[e] - frame[p].nrows) + leaked[e]))

\* An insert_rows that leaves the key to the counter has failed with
\* TypeMismatchError at its third row, on a table that already held a row.
C14_Witness ==
  \E p \in Callers :
    /\ Done(p, "insert_rows") /\ frame[p].result = "TypeMismatch"
    /\ FirstMismatchRow(p) = 3
    /\ Cardinality(DOMAIN frame[p].pre_disk[frame[p].table]) >= 2
    /\ \E e \in DOMAIN auto_incs :
         /\ UsesCounter(p, e)
         /\ auto_incs[e] = frame[p].pre_incs[e] + 2

\* The errors of insert_rows' validation.
ValidationErrors ==
  {"TableNotFound", "UnknownColumn", "MissingColumn", "UnsupportedDefault",
   "UngeneratableColumn", "NoCounter", "TypeMismatch"}

\* C15 as claimed: whenever insert_rows returns a validation error, its
\* write batch holds no staged put at the moment the error is raised.
C15_Original ==
  \A p \in Callers :
    (Done(p, "insert_rows") /\ frame[p].result \in ValidationErrors)
    => frame[p].transaction = <<>>

\* C15 as amended: the errors of the checks made before the rows
\* (TableNotFound, UnknownColumn, MissingColumn, UnsupportedDefault,
\* UngeneratableColumn, NoCounter) are raised while the write batch is empty.
\* TypeMismatchError at the row with 0-based index j is raised while the
\* batch holds the j puts staged for the earlier rows, each row being staged
\* right after its own check; the batch is then dropped without being
\* written, so no validation failure leaves a row in the store.
C15_StagedBeforeLaterRowsChecked ==
  \A p \in Callers :
    (Done(p, "insert_rows") /\ frame[p].result \in ValidationErrors)
    => /\ disk = frame[p].pre_disk
       /\ IF frame[p].result = "TypeMismatch"
          THEN Len(frame[p].transaction) = FirstMismatchRow(p) - 1
          ELSE frame[p].transaction = <<>>

\* An insert_rows whose first row is valid and whose second row is not has
\* failed with TypeMismatchError, the put of the first row being staged.
C15_Witness ==
  \E p \in Callers :
    /\ Done(p, "insert_rows") /\ frame[p].result = "TypeMismatch"
    /\ FirstMismatchRow(p) = 2
    /\ Len(frame[p].transaction) = 1

\* The one key under which the rows of a table with this schema are stored.
RowKey(metadata) == generate_pk_name(EmptyCf, metadata)

\* C16: the storage key of a row is made of the names of the schema's
\* columns that are not primary keys and does not depend on the row's
\* values, so every row of a table is staged under the same key.  In every
\* reachable state a table's namespace holds at most one row besides the
\* metadata record, and after a successful insert_rows the value under the
\* table's row key is the last row of that request: the earlier rows of the
\* request and the rows of earlier requests are overwritten.
C16_OneRowPerTable ==
  /\ \A t \in DOMAIN disk :
       DOMAIN disk[t] \ {TABLE_METADATA_KEY}
         \subseteq (IF t \in DOMAIN created THEN {RowKey(created[t])} ELSE {})
  /\ \A p \in Callers :
       frame[p].op = "insert_rows"
       => \A i \in 1..Len(frame[p].transaction) :
            frame[p].transaction[i][1] = RowKey(frame[p].metadata)
  /\ \A p \in Callers :
       (Done(p, "insert_rows") /\ frame[p].result = "Ok")
       => /\ RowKey(frame[p].metadata) \in DOMAIN disk[frame[p].table]
          /\ disk[frame[p].table][RowKey(frame[p].metadata)]
               = StagedRow(p, frame[p].nrows)

\* An insert_rows of several rows with different generated ids has returned
\* Ok on a table that already held a row of an earlier request.
C16_Witness ==
  \E p \in Callers :
    /\ Done(p, "insert_rows") /\ frame[p].result = "Ok"
    /\ frame[p].nrows >= 2
    /\ StagedRow(p, 1) # StagedRow(p, frame[p].nrows)
    /\ RowKey(frame[p].metadata) \in DOMAIN frame[p].pre_disk[frame[p].table]
    /\ RowKey(frame[p].metadata) # TABLE_METADATA_KEY

\* The call of caller p is an insert_rows that has loaded the schema.
InsertWithSchema(p) ==
  /\ frame[p].op = "insert_rows"
  /\ frame[p].metadata # EmptyCf

\* The columns of the schema that are not primary keys.
NonKeyColumns(metadata) == {c \in DOMAIN metadata : ~metadata[c].primary_key}

\* The key derivation of insert_rows fails exactly when the derived key is
\* empty: a call that ended in the assertion had an empty key, had staged
\* nothing and left the store as it was, and a call that has staged a row
\* has a key that is not empty.
DerivationFailsOnEmptyKey(p) ==
  /\ (Done(p, "insert_rows") /\ frame[p].result = "Panic")
     => /\ EmptyRowKey(frame[p].metadata)
        /\ frame[p].transaction = <<>>
        /\ disk = frame[p].pre_disk
  /\ (InsertWithSchema(p) /\ frame[p].transaction # <<>>)
     => ~EmptyRowKey(frame[p].metadata)
  /\ (Done(p, "insert_rows") /\ frame[p].result = "Ok")
     => ~EmptyRowKey(frame[p].metadata)

\* C17 as claimed: for an insert_rows with a row that passes validation, the
\* key derivation fails exactly when the derived key is empty, and the key
\* is empty exactly when every column of the schema is a primary key; then
\* no row is persisted.
C17_Original ==
  \A p \in Callers :
    /\ DerivationFailsOnEmptyKey(p)
    /\ InsertWithSchema(p)
       => (EmptyRowKey(frame[p].metadata) <=> AllPrimaryKeys(frame[p].metadata))

\* C17 as amended: for an insert_rows with a row that passes validation, the
\* key derivation fails exactly when the derived key is empty, and the key
\* is empty exactly when every column of the schema is a primary key or the
\* only column that is not a primary key has the empty name; then no row is
\* persisted.  For every other schema the derivation succeeds with a key
\* that is not empty.
C17_EmptyKeyAssertion ==
  \A p \in Callers :
    /\ DerivationFailsOnEmptyKey(p)
    /\ InsertWithSchema(p)
       => (EmptyRowKey(frame[p].metadata)
             <=> \/ AllPrimaryKeys(frame[p].metadata)
                 \/ NonKeyColumns(frame[p].metadata) = {""})

\* An insert_rows into a table whose columns are all primary keys has
\* failed in the key assertion after its first row took a counter value.
C17_Witness ==
  \E p \in Callers :
    /\ Done(p, "insert_rows") /\ frame[p].result = "Panic"
    /\ InsertWithSchema(p) /\ AllPrimaryKeys(frame[p].metadata)
    /\ frame[p].took # <<>>

\* The request of caller p names a column that the schema lacks.
NamesUnknownColumn(p) ==
  \E x \in SeqRange(frame[p].columns) : x \notin DOMAIN frame[p].metadata

\* Column c is the first of the supplied names, in request order, that the
\* schema of the call of caller p lacks.
FirstUnknownInRequest(p, c) ==
  \E j \in 1..Len(frame[p].columns) :
     /\ frame[p].columns[j] = c
     /\ c \notin DOMAIN frame[p].metadata
     /\ \A k \in 1..(j - 1) : frame[p].columns[k] \in DOMAIN frame[p].metadata

\* insert_rows checks the table first, then the supplied names, then the
\* omitted columns, then the rows: a call that fails for an unknown table
\* has loaded no schema, a request that names an unknown column fails with
\* UnknownColumnError naming the first such column in request order, whatever
\* it omits and whatever its values, a TypeMismatchError is raised only when
\* no earlier check fails, and none of these failures changes the store or a
\* counter.
ChecksInOrder(p) ==
  /\ (Done(p, "insert_rows")
        /\ table_metadata(frame[p].pre_disk, frame[p].table)[1] # "Ok")
     => /\ frame[p].result = table_metadata(frame[p].pre_disk, frame[p].table)[2]
        /\ frame[p].metadata = EmptyCf
        /\ Untouched(p)
  /\ (Done(p, "insert_rows") /\ InsertWithSchema(p) /\ NamesUnknownColumn(p))
     => /\ frame[p].result = "UnknownColumn"
        /\ frame[p].bad_column # None
        /\ FirstUnknownInRequest(p, frame[p].bad_column[1])
        /\ Untouched(p)
  /\ (Done(p, "insert_rows") /\ frame[p].result = "TypeMismatch")
     => ExpectedBeginError(frame[p].metadata, frame[p].table,
                           frame[p].columns, frame[p].pre_incs) = ""

\* C18 as claimed: insert_rows checks the table, then the supplied column
\* names, then the omitted columns, then the rows.  A request that names a
\* column absent from the schema fails with UnknownColumnError naming the
\* first such column in request order, also when it omits a required column;
\* a request with a missing required column (and no unknown column) fails
\* with MissingColumnError; both also when a value has the wrong type, and
\* no counter is advanced.
C18_Original ==
  \A p \in Callers :
    /\ ChecksInOrder(p)
    /\ (Done(p, "insert_rows") /\ InsertWithSchema(p)
          /\ ~NamesUnknownColumn(p) /\ OmitsRequired(p))
       => frame[p].result = "MissingColumn" /\ Untouched(p)

\* C18 as amended: as claimed, except that a request with a missing required
\* column (and no unknown column) fails with the error of the first omitted
\* column, in name order, whose check fails: MissingColumnError unless an
\* omitted column earlier in name order has a non-literal default
\* (UnsupportedDefaultError) or is auto-increment without default and
\* without a counter (NoCounterError).
C18_CheckOrder ==
  \A p \in Callers :
    /\ ChecksInOrder(p)
    /\ (Done(p, "insert_rows") /\ InsertWithSchema(p)
          /\ ~NamesUnknownColumn(p) /\ OmitsRequired(p))
       => /\ frame[p].result \in {"MissingColumn", "UnsupportedDefault", "NoCounter"}
          /\ frame[p].result =
               ExpectedBeginError(frame[p].metadata, frame[p].table,
                                  frame[p].columns, frame[p].pre_incs)
          /\ Untouched(p)

\* An insert_rows that names an unknown column after a known one, omits a
\* required column and carries a value of the wrong type for the known
\* column has failed with UnknownColumnError on a table with a live counter.
C18_Witness ==
  \E p \in Callers :
    /\ Done(p, "insert_rows") /\ frame[p].result = "UnknownColumn"
    /\ Len(frame[p].columns) >= 2
    /\ frame[p].columns[1] \in DOMAIN frame[p].metadata
    /\ frame[p].bad_column = Some(frame[p].columns[2])
    /\ OmitsRequired(p)
    /\ frame[p].mismatch
    /\ \E e \in DOMAIN auto_incs : e[1] = frame[p].table

\* The namespace of table t exists in the store and holds no metadata.
HalfCreated(store, t) ==
  t \in DOMAIN store /\ TABLE_METADATA_KEY \notin DOMAIN store[t]

\* Table t is half created and no create_table is about to write its
\* metadata.
Stuck(t) ==
  /\ HalfCreated(disk, t)
  /\ \A p \in Callers : ~(pc[p] = "put_cf" /\ frame[p].table = t)

\* A create_table that stops between create_cf and put_cf leaves the
\* namespace without metadata and seeds no counter; on such a table
\* table_metadata and insert_rows fail with TableNotFoundError.
HalfCreatedIsNotFound ==
  \A p \in Callers :
    /\ (Done(p, "create_table") /\ frame[p].result = "StorageError")
       => /\ HalfCreated(disk, frame[p].table)
          /\ auto_incs = frame[p].pre_incs
    /\ ((Done(p, "table_metadata") \/ Done(p, "insert_rows"))
          /\ HalfCreated(frame[p].pre_disk, frame[p].table))
       => frame[p].result = "TableNotFound" /\ Untouched(p)

\* No step of a public operation gives a stuck table its metadata.
StaysStuck == \A t \in TableNames : Stuck(t) => Stuck(t)'

\* C19 as claimed: create_table is not atomic: when it stops after the
\* namespace is created and before the metadata is written, the namespace
\* exists without metadata and no counter is seeded; then table_metadata and
\* insert_rows on the table fail with TableNotFoundError, every later
\* create_table of the name fails with TableExistsError, and the table never
\* gets its metadata.
C19_Original ==
  /\ [](HalfCreatedIsNotFound)
  /\ [](\A p \in Callers :
          (Done(p, "create_table") /\ HalfCreated(frame[p].pre_disk, frame[p].table))
          => frame[p].result = "TableExists" /\ Untouched(p))
  /\ [][StaysStuck]_vars

\* C19 as amended: as claimed, except that a later create_table of the name
\* fails with ForeignKeyError when a foreign key of the schema it carries
\* does not validate (the validation comes before create_cf) and with
\* TableExistsError otherwise; it changes nothing in either case, so the
\* table never gets its metadata.
C19_HalfCreatedTable ==
  /\ [](HalfCreatedIsNotFound)
  /\ [](\A p \in Callers :
          (Done(p, "create_table") /\ HalfCreated(frame[p].pre_disk, frame[p].table))
          => /\ frame[p].result =
                  IF \E c \in DOMAIN frame[p].opts :
                       DanglingForeignKey(frame[p].pre_disk, frame[p].opts[c])
                  THEN "ForeignKeyError" ELSE "TableExists"
             /\ Untouched(p))
  /\ [][StaysStuck]_vars

\* After a create_table of users stopped before its put_cf, a later
\* create_table of users has failed with TableExistsError.
C19_Witness ==
  \E p \in Callers :
    /\ Done(p, "create_table") /\ frame[p].result = "TableExists"
    /\ frame[p].table = "users"
    /\ HalfCreated(frame[p].pre_disk, "users")
    /\ Stuck("users")

\* Callers p and q have each ended a create_table of the same name.
BothCreated(p, q) ==
  /\ p # q
  /\ Done(p, "create_table") /\ Done(q, "create_table")
  /\ frame[p].table = frame[q].table

\* The counters of table t are those of the auto-increment columns of the
\* schema, each at its seed.
CountersSeededFor(t, columns) ==
  /\ {e \in DOMAIN auto_incs : e[1] = t}
       = {<<t, c>> : c \in {x \in DOMAIN columns : columns[x].auto_increment}}
  /\ \A e \in DOMAIN auto_incs : e[1] = t => auto_incs[e] = InitialCounter

\* Of two create_table calls of one name at most one returns Ok, and then
\* the persisted schema and the counters of the table are the ones of that
\* call: the other call has written no metadata and seeded no counter.
OneWinner(p, q) ==
  BothCreated(p, q)
  => /\ ~(frame[p].result = "Ok" /\ frame[q].result = "Ok")
     /\ frame[p].result = "Ok"
        => /\ table_metadata(disk, frame[p].table) = Ok(frame[p].opts)
           /\ CountersSeededFor(frame[p].table, frame[p].opts)

\* C20 as claimed: when two create_table calls of one name interleave step
\* by step, at most one of them succeeds and the other fails with
\* TableExistsError; the persisted schema and the seeded counters are those
\* of the successful call, the other writes no metadata and seeds no counter.
C20_Original ==
  \A p, q \in Callers :
    /\ OneWinner(p, q)
    /\ (BothCreated(p, q) /\ frame[p].result = "Ok")
       => frame[q].result = "TableExists"

\* C20 as amended: as claimed, except that the call that does not succeed
\* fails with ForeignKeyError when a foreign key of the schema it carries
\* does not validate at its start, and with TableExistsError otherwise.
C20_CreateRace ==
  \A p, q \in Callers :
    /\ OneWinner(p, q)
    /\ (BothCreated(p, q) /\ frame[p].result = "Ok")
       => frame[q].result =
            IF \E c \in DOMAIN frame[q].opts :
                 DanglingForeignKey(frame[q].pre_disk, frame[q].opts[c])
            THEN "ForeignKeyError" ELSE "TableExists"

\* Two create_table calls of one name with different schemas have both
\* started before the namespace existed; one has returned Ok and the other
\* has failed with TableExistsError.
C20_Witness ==
  \E p, q \in Callers :
    /\ BothCreated(p, q)
    /\ frame[p].result = "Ok" /\ frame[q].result = "TableExists"
    /\ frame[p].opts # frame[q].opts
    /\ frame[p].table \notin DOMAIN frame[p].pre_disk
    /\ frame[q].table \notin DOMAIN frame[q].pre_disk

====
